---- MODULE Spec2Model ----
(***************************************************************************)
(* A model of the fluent HTTP request builder of http_client.go: the       *)
(* chainable setters of Client (identically, Rest), and Send with its      *)
(* recursive send(attempts): request assembly, the transport call, the     *)
(* body drain, the retry gate, the retry sleep and the return.             *)
(*                                                                         *)
(* Strings are sequences of one-character strings, so that formatting,     *)
(* escaping and header canonicalisation are computed, not assumed.  The    *)
(* character "DEL" stands for the control byte 0x7f, "DQUOTE" and         *)
(* "BSLASH", "BQUOTE" for the double quote, backslash and back quote.      *)
(***************************************************************************)
EXTENDS Integers, Sequences, FiniteSets, TLC

\* ------------------------------------------------------------------ bounds
\* Number of setter calls made on a builder before Send.
MaxCfg == 3
\* Largest retryAttempts a caller passes to Retry.
MaxAttempts == 2

\* ------------------------------------------------------- bytes and strings
Ascii ==
  << " ", "!", "DQUOTE", "#", "$", "%", "&", "'", "(", ")", "*", "+", ",", "-",
     ".", "/", "0", "1", "2", "3", "4", "5", "6", "7", "8", "9", ":", ";",
     "<", "=", ">", "?", "@", "A", "B", "C", "D", "E", "F", "G", "H", "I",
     "J", "K", "L", "M", "N", "O", "P", "Q", "R", "S", "T", "U", "V", "W",
     "X", "Y", "Z", "[", "BSLASH", "]", "^", "_", "BQUOTE", "a", "b", "c", "d", "e",
     "f", "g", "h", "i", "j", "k", "l", "m", "n", "o", "p", "q", "r", "s",
     "t", "u", "v", "w", "x", "y", "z", "{", "|", "}", "~" >>

Chr(i) == IF i = 127 THEN "DEL" ELSE Ascii[i - 31]

OrdTable == [ch \in {Chr(i) : i \in 32..127} |-> CHOOSE i \in 32..127 : Chr(i) = ch]

Ord(ch) == OrdTable[ch]

IsLower(c) == Ord(c) >= 97 /\ Ord(c) <= 122
IsUpper(c) == Ord(c) >= 65 /\ Ord(c) <= 90
IsDigit(c) == Ord(c) >= 48 /\ Ord(c) <= 57
IsAlnum(c) == IsLower(c) \/ IsUpper(c) \/ IsDigit(c)

\* Byte-wise lexicographic order of Go strings (a < b).
RECURSIVE StrLess(_, _)
StrLess(a, b) ==
  IF b = <<>> THEN FALSE
  ELSE IF a = <<>> THEN TRUE
  ELSE IF Ord(Head(a)) # Ord(Head(b)) THEN Ord(Head(a)) < Ord(Head(b))
  ELSE StrLess(Tail(a), Tail(b))

\* sort.Strings over the keys of a map.
RECURSIVE SortStrings(_)
SortStrings(S) ==
  IF S = {} THEN <<>>
  ELSE LET m == CHOOSE k \in S : \A o \in S \ {k} : StrLess(k, o)
       IN  <<m>> \o SortStrings(S \ {m})

\* strconv for a non-negative decimal, then with sign.
RECURSIVE Digits(_)
Digits(n) == IF n < 10 THEN <<Chr(48 + n)>>
             ELSE Digits(n \div 10) \o <<Chr(48 + (n % 10))>>

Itoa(n) == IF n < 0 THEN <<"-">> \o Digits(0 - n) ELSE Digits(n)

\* Go values passed as interface{}.
GoString(s) == [t |-> "string", s |-> s, i |-> 0, b |-> FALSE]
GoInt(i) == [t |-> "int", s |-> <<>>, i |-> i, b |-> FALSE]
GoBool(b) == [t |-> "bool", s |-> <<>>, i |-> 0, b |-> b]

\* fmt.Sprintf("%v", value)
Sprintf(value) ==
  CASE value.t = "string" -> value.s
    [] value.t = "int" -> Itoa(value.i)
    [] value.t = "bool" -> IF value.b THEN <<"t", "r", "u", "e">>
                           ELSE <<"f", "a", "l", "s", "e">>

\* ------------------------------------------------------------------- maps
\* A Go map is nil or a finite function; a missing key reads as the zero
\* value (the nil slice and the empty string are both <<>>).
EmptyKV == [k \in {} |-> <<>>]
NilMap == [nil |-> TRUE, kv |-> EmptyKV]
MakeMap == [nil |-> FALSE, kv |-> EmptyKV]
MapOf(kv) == [nil |-> FALSE, kv |-> kv]
MapGet(m, k) == IF k \in DOMAIN m.kv THEN m.kv[k] ELSE <<>>
MapPut(kv, k, v) == [x \in (DOMAIN kv) \cup {k} |-> IF x = k THEN v ELSE kv[x]]

\* The orders in which a range over a map with key set S may visit its keys.
Orders(S) ==
  { o \in [1..Cardinality(S) -> S] :
      \A i, j \in 1..Cardinality(S) : i # j => o[i] # o[j] }

\* ---------------------------------------------------------------- net/url
\* shouldEscape(c, encodeQueryComponent)
ShouldEscape(c) ==
  IF IsAlnum(c) THEN FALSE
  ELSE IF c \in {"-", "_", ".", "~"} THEN FALSE
  ELSE TRUE

UpperHex == <<"0", "1", "2", "3", "4", "5", "6", "7", "8", "9",
              "A", "B", "C", "D", "E", "F">>

EscapeByte(c) ==
  IF c = " " THEN <<"+">>
  ELSE IF ShouldEscape(c)
       THEN <<"%", UpperHex[(Ord(c) \div 16) + 1], UpperHex[(Ord(c) % 16) + 1]>>
       ELSE <<c>>

\* url.QueryEscape
RECURSIVE QueryEscape(_)
QueryEscape(s) ==
  IF s = <<>> THEN <<>> ELSE EscapeByte(Head(s)) \o QueryEscape(Tail(s))

\* A map written through: t.panic records an assignment to an entry of a nil
\* map, after which nothing more is written.
Target(m) == [panic |-> FALSE, m |-> m]

\* url.Values.Add: v[key] = append(v[key], value)
ValuesAdd(t, key, value) ==
  IF t.panic \/ t.m.nil THEN [panic |-> TRUE, m |-> t.m]
  ELSE [panic |-> FALSE,
        m |-> MapOf(MapPut(t.m.kv, key, Append(MapGet(t.m, key), value)))]

\* url.Values.Encode, the pairs of one key.  In the loops below the value
\* after one round (next) is computed once and passed on.
RECURSIVE EncodeKey(_, _, _)
EncodeKey(buf, keyEscaped, vs) ==
  IF vs = <<>> THEN buf
  ELSE CHOOSE out \in
         { EncodeKey(next, keyEscaped, Tail(vs)) :
             next \in { (IF Len(buf) > 0 THEN buf \o <<"&">> ELSE buf)
                          \o keyEscaped \o <<"=">> \o QueryEscape(Head(vs)) } } : TRUE

RECURSIVE EncodeKeys(_, _, _)
EncodeKeys(buf, v, keys) ==
  IF keys = <<>> THEN buf
  ELSE CHOOSE out \in
         { EncodeKeys(next, v, Tail(keys)) :
             next \in { EncodeKey(buf, QueryEscape(Head(keys)), v.kv[Head(keys)]) } } :
         TRUE

\* url.Values.Encode: keys sorted, values of a key in their stored order
Encode(v) ==
  IF v.nil THEN <<>>
  ELSE CHOOSE out \in
         { EncodeKeys(<<>>, v, keys) : keys \in {SortStrings(DOMAIN v.kv)} } : TRUE

ToLowerByte(c) == IF IsUpper(c) THEN Chr(Ord(c) + 32) ELSE c
ToUpperByte(c) == IF IsLower(c) THEN Chr(Ord(c) - 32) ELSE c
ToLower(s) == [i \in 1..Len(s) |-> ToLowerByte(s[i])]

\* Mutant: control bytes are let through.
ContainsCTLByte_Never(s) == FALSE

\* stringContainsCTLByte
ContainsCTLByte(s) == \E i \in 1..Len(s) : Ord(s[i]) < 32 \/ Ord(s[i]) = 127

\* getScheme, from byte i on
RECURSIVE GetScheme(_, _)
GetScheme(rawURL, i) ==
  IF i > Len(rawURL) THEN [err |-> FALSE, scheme |-> <<>>, rest |-> rawURL]
  ELSE LET c == rawURL[i] IN
    IF IsLower(c) \/ IsUpper(c) THEN GetScheme(rawURL, i + 1)
    ELSE IF IsDigit(c) \/ c \in {"+", "-", "."}
      THEN IF i = 1 THEN [err |-> FALSE, scheme |-> <<>>, rest |-> rawURL]
           ELSE GetScheme(rawURL, i + 1)
    ELSE IF c = ":"
      THEN IF i = 1 THEN [err |-> TRUE, scheme |-> <<>>, rest |-> <<>>]
           ELSE [err |-> FALSE, scheme |-> SubSeq(rawURL, 1, i - 1),
                 rest |-> SubSeq(rawURL, i + 1, Len(rawURL))]
    ELSE [err |-> FALSE, scheme |-> <<>>, rest |-> rawURL]

\* strings.IndexByte and strings.LastIndexByte as positions from 1, 0 when
\* the byte is absent
IndexByte(s, ch) ==
  IF \E i \in 1..Len(s) : s[i] = ch
  THEN CHOOSE i \in 1..Len(s) : s[i] = ch /\ \A j \in 1..(i - 1) : s[j] # ch
  ELSE 0

LastIndexByte(s, ch) ==
  IF \E i \in 1..Len(s) : s[i] = ch
  THEN CHOOSE i \in 1..Len(s) : s[i] = ch /\ \A j \in (i + 1)..Len(s) : s[j] # ch
  ELSE 0

HasPrefix(s, prefix) ==
  Len(s) >= Len(prefix) /\ SubSeq(s, 1, Len(prefix)) = prefix

\* segment, _, _ := strings.Cut(rest, "/"); strings.Contains(segment, ":")
FirstSegmentHasColon(rest) ==
  \E i \in 1..Len(rest) : rest[i] = ":" /\ \A j \in 1..(i - 1) : rest[j] # "/"

\* A *url.URL.  The URLs modelled are those written with letters, digits and
\* the bytes - . _ ~ + : / ? = & and control bytes: they have no fragment
\* (#), no userinfo (@), no IP literal ([) and no escape (%), and no byte that
\* a host rejects or that a path is escaped for, so User, RawPath and Fragment
\* stay empty and escaping Host and Path gives them back unchanged.
UrlZero ==
  [err |-> FALSE, Scheme |-> <<>>, Opaque |-> <<>>, Host |-> <<>>, Path |-> <<>>,
   OmitHost |-> FALSE, RawQuery |-> <<>>, ForceQuery |-> FALSE]

UrlError == [UrlZero EXCEPT !.err = TRUE]

\* The first steps of url.parse: the "?" and what follows it are cut off.
SplitQuery(rest) ==
  CHOOSE out \in {
    IF q # 0 /\ q = Len(rest)
    THEN [rest |-> SubSeq(rest, 1, q - 1), RawQuery |-> <<>>, ForceQuery |-> TRUE]
    ELSE IF q # 0
    THEN [rest |-> SubSeq(rest, 1, q - 1),
          RawQuery |-> SubSeq(rest, q + 1, Len(rest)), ForceQuery |-> FALSE]
    ELSE [rest |-> rest, RawQuery |-> <<>>, ForceQuery |-> FALSE]
    : q \in {IndexByte(rest, "?")} } : TRUE

\* validOptionalPort
ValidOptionalPort(port) ==
  IF port = <<>> THEN TRUE
  ELSE IF port[1] # ":" THEN FALSE
  ELSE \A i \in 2..Len(port) : IsDigit(port[i])

\* parseAuthority and parseHost fail: what follows the last colon of the
\* host is no port.
InvalidPort(authority) ==
  LastIndexByte(authority, ":") # 0
    /\ ~ValidOptionalPort(SubSeq(authority, LastIndexByte(authority, ":"),
                                 Len(authority)))

\* url.parse after the scheme and the query are cut off: an opaque URL, a
\* colon in the first segment of a relative path, the authority, the path.
ParseRest(url, rest) ==
  IF ~HasPrefix(rest, <<"/">>) /\ url.Scheme # <<>>
  THEN [url EXCEPT !.Opaque = rest]
  ELSE IF ~HasPrefix(rest, <<"/">>) /\ FirstSegmentHasColon(rest)
  THEN UrlError
  ELSE IF (url.Scheme # <<>> \/ ~HasPrefix(rest, <<"/", "/", "/">>))
            /\ HasPrefix(rest, <<"/", "/">>)
  THEN CHOOSE out \in {
         IF InvalidPort(IF i > 0 THEN SubSeq(rest, 3, i + 1) ELSE SubSeq(rest, 3, Len(rest)))
         THEN UrlError
         ELSE [url EXCEPT
                 !.Host = IF i > 0 THEN SubSeq(rest, 3, i + 1)
                          ELSE SubSeq(rest, 3, Len(rest)),
                 !.Path = IF i > 0 THEN SubSeq(rest, i + 2, Len(rest)) ELSE <<>>]
         : i \in {IndexByte(SubSeq(rest, 3, Len(rest)), "/")} } : TRUE
  ELSE [url EXCEPT !.OmitHost = (url.Scheme # <<>> /\ HasPrefix(rest, <<"/">>)),
                   !.Path = rest]

\* url.Parse: it fails on a control byte, on a missing scheme (a leading
\* colon), on a colon in the first segment of a relative path and on an
\* invalid port.  g (getScheme) and s (the query cut off) are computed once.
UrlParse(rawURL) ==
  IF ContainsCTLByte(rawURL) THEN UrlError
  ELSE CHOOSE out \in {
    IF g.err THEN UrlError
    ELSE CHOOSE out2 \in {
      ParseRest([UrlZero EXCEPT !.Scheme = ToLower(g.scheme),
                                !.RawQuery = s.RawQuery,
                                !.ForceQuery = s.ForceQuery], s.rest)
      : s \in {SplitQuery(g.rest)} } : TRUE
    : g \in {GetScheme(rawURL, 1)} } : TRUE

\* URL.String
UrlString(u) ==
  LET scheme == IF u.Scheme # <<>> THEN u.Scheme \o <<":">> ELSE <<>>
      host ==
        IF (u.Scheme # <<>> \/ u.Host # <<>>) /\ ~(u.OmitHost /\ u.Host = <<>>)
        THEN (IF u.Host # <<>> \/ u.Path # <<>> THEN <<"/", "/">> ELSE <<>>) \o u.Host
        ELSE <<>>
      slash == IF u.Path # <<>> /\ u.Path[1] # "/" /\ u.Host # <<>>
               THEN <<"/">> ELSE <<>>
      dot == IF scheme = <<>> /\ host = <<>> /\ slash = <<>>
                  /\ FirstSegmentHasColon(u.Path)
             THEN <<".", "/">> ELSE <<>>
  IN (IF u.Opaque # <<>> THEN scheme \o u.Opaque
      ELSE scheme \o host \o slash \o dot \o u.Path)
       \o (IF u.ForceQuery \/ u.RawQuery # <<>> THEN <<"?">> \o u.RawQuery ELSE <<>>)

\* removeEmptyPort: strings.TrimSuffix(host, ":") (no IP literal: a colon
\* in the host is the port's)
RemoveEmptyPort(host) ==
  IF host # <<>> /\ host[Len(host)] = ":" THEN SubSeq(host, 1, Len(host) - 1)
  ELSE host

\* --------------------------------------------------- net/textproto, net/http
\* validHeaderFieldByte, httpguts.IsTokenRune
IsTokenByte(c) ==
  IsAlnum(c) \/ c \in {"!", "#", "$", "%", "&", "'", "*", "+", "-", ".", "^",
                       "_", "BQUOTE", "|", "~"}

\* textproto.CanonicalMIMEHeaderKey
CanonicalMIMEHeaderKey(s) ==
  IF \E i \in 1..Len(s) : ~IsTokenByte(s[i]) THEN s
  ELSE [i \in 1..Len(s) |->
          IF i = 1 \/ s[i - 1] = "-" THEN ToUpperByte(s[i]) ELSE ToLowerByte(s[i])]

\* Mutant: Set instead of Add.
HeaderAdd_Set(t, key, value) ==
  IF t.panic \/ t.m.nil THEN [panic |-> TRUE, m |-> t.m]
  ELSE [panic |-> FALSE,
        m |-> MapOf(MapPut(t.m.kv, CanonicalMIMEHeaderKey(key), <<value>>))]

\* http.Header.Add
HeaderAdd(t, key, value) == ValuesAdd(t, CanonicalMIMEHeaderKey(key), value)

\* validMethod
ValidMethod(method) ==
  Len(method) > 0 /\ \A i \in 1..Len(method) : IsTokenByte(method[i])

\* http.NewRequest: the request descriptor, or an error
NewRequest(method, urlStr, body) ==
  LET m == IF method = <<>> THEN <<"G", "E", "T">> ELSE method
  IN CHOOSE out \in {
       IF ~ValidMethod(m) \/ u.err
       THEN [err |-> TRUE, Method |-> <<>>, URL |-> <<>>, Header |-> NilMap,
             Form |-> NilMap, Body |-> <<>>]
       ELSE [err |-> FALSE, Method |-> m,
             URL |-> UrlString([u EXCEPT !.Host = RemoveEmptyPort(@)]),
             Header |-> MakeMap, Form |-> NilMap, Body |-> body]
       : u \in {UrlParse(urlStr)} } : TRUE

\* ----------------------------------------------------------------- inputs
UrlGood == <<"h", "t", "t", "p", ":", "/", "/", "h", "/", "p">>
UrlWithQuery == UrlGood \o <<"?", "z", "=", "1">>
UrlNoScheme == <<":", "h">>
UrlCtl == UrlGood \o <<"DEL">>
UrlBadPort == <<"h", "t", "t", "p", ":", "/", "/", "h", ":", "x", "/", "p">>
UrlColonSegment == <<"1", "h", "t", "t", "p", ":", "/", "/", "h", "/", "p">>
MethodGet == <<"G", "E", "T">>
MethodBad == <<"G", " ", "T">>

\* The (method, url) pairs NewRest is called with.
NewRestArgs ==
  { <<MethodGet, UrlGood>>, <<MethodGet, UrlWithQuery>>, <<MethodGet, UrlNoScheme>>,
    <<MethodGet, UrlCtl>>, <<MethodGet, UrlBadPort>>, <<MethodGet, UrlColonSegment>>,
    <<MethodBad, UrlGood>> }

Names == { <<"x">>, <<"X">> }
\* The names given to AddParam and AddForm: send never reads param, and of
\* form only whether it holds a value.
InertNames == { <<"x">> }

ValA == GoString(<<"a">>)
ValB == GoString(<<"b", "&", " ">>)
ValInt == GoInt(42)
ValBool == GoBool(TRUE)

\* The variadic argument lists of AddQuery, AddHeader and AddForm.
ArgLists == { <<>>, <<ValA>>, <<ValB>>, <<ValInt, ValBool>> }

\* The maps passed to Query, Header and Form, and to Param: nil, or the
\* caller's map m (a map[string][]string), or p (a map[string]string).  A Go
\* map value is a reference to the map object.
Maps == { "nil", "m" }
ParamMaps == { "nil", "p" }

Timeouts == { 500 }
Delays == { 10 }
Bodies == { <<"d">> }
RecordsValues == { "rec" }
\* retryRuleF is nil or a caller's function, whose answers are the caller's.
RuleFs == { "nil", "rule" }

\* What httpClient.Do gives: a transport error, or a status, headers and a
\* body stream that is still to be read.
TransportResults ==
  { [err |-> TRUE, StatusCode |-> 0, Header |-> NilMap, Body |-> <<>>, readErr |-> FALSE],
    [err |-> FALSE, StatusCode |-> 200,
     Header |-> MapOf([k \in {<<"S">>} |-> << <<"s">> >>]),
     Body |-> <<>>, readErr |-> FALSE] }

\* What ioutil.ReadAll gives on the stream: all of the body, or a part of it
\* and an error.
ReadResults ==
  { [Body |-> <<"o", "k">>, readErr |-> FALSE],
    [Body |-> <<"o">>, readErr |-> TRUE] }

\* ------------------------------------------------------------------ state
VARIABLES
  c,        \* the builder (*Client, *Rest): its fields
  pc,       \* "config", inside Send: "do", "read", "gate", "sleep", "resend",
            \* then "done" or "panic"
  calls,    \* setter calls made so far
  stack,    \* the frames of send, innermost last
  log,      \* the order of transport calls, rule calls, sleeps and closes
  dos,      \* the requests handed to httpClient.Do and what came back
  rules,    \* the invocations of retryRuleF: arguments and answer
  sleeps,   \* the durations slept
  closes,   \* the depths of the frames whose res.Body was closed
  result,   \* what Send returned
  sent,     \* history: whether Send was called, and c.retryAttempts at that call
  added,    \* history: the values passed to AddQuery and AddHeader, per name
  heap      \* the map objects: those NewRest made and the caller's m and p

vars ==
  <<c, pc, calls, stack, log, dos, rules, sleeps, closes, result, sent, added, heap>>

\* time.Duration in milliseconds: 2 * time.Second
DefaultTimeout == 2000

NewRest(method, url) ==
  [ method |-> method, url |-> url, timeout |-> DefaultTimeout,
    retryAttempts |-> 0, retryDelay |-> 0, retryRuleF |-> "nil",
    param |-> "param", query |-> "query", header |-> "header", form |-> "form",
    body |-> <<>>, records |-> "nil" ]

\* The map objects after NewRest: its four make(map...) and the caller's maps.
NewHeap ==
  [ param |-> EmptyKV, query |-> EmptyKV, header |-> EmptyKV, form |-> EmptyKV,
    m |-> [k \in {<<"x">>} |-> << <<"q">> >>],
    p |-> [k \in {<<"x">>} |-> <<"p">>] ]

\* The map a reference stands for, in the heap h.
At(h, ref) == IF ref = "nil" THEN NilMap ELSE MapOf(h[ref])

\* The builder b with its four maps read from the heap h.
Fields(b, h) ==
  [b EXCEPT !.param = At(h, @), !.query = At(h, @), !.header = At(h, @),
            !.form = At(h, @)]

\* m[name] = v, on the map object the reference stands for.
MapAssign(h, ref, name, v) == [h EXCEPT ![ref] = MapPut(@, name, v)]

\* *Response and error values; at is the transport call that produced them.
NilResponse == [nil |-> TRUE, StatusCode |-> 0, Header |-> NilMap, Body |-> <<>>, at |-> 0]
NilError == [nil |-> TRUE, label |-> "", cause |-> "", at |-> 0]
\* Mutant: the error is passed on without its label.
Wrap_Bare(cause, label) == [nil |-> FALSE, label |-> "", cause |-> cause, at |-> 0]

\* errors.Wrap(err, label)
Wrap(cause, label) == [nil |-> FALSE, label |-> label, cause |-> cause, at |-> 0]

NoResult == [returned |-> FALSE, response |-> NilResponse, err |-> NilError]

Init ==
  /\ \E a \in NewRestArgs : c = NewRest(a[1], a[2])
  /\ pc = "config"
  /\ calls = 0
  /\ stack = <<>>
  /\ log = <<>>
  /\ dos = <<>>
  /\ rules = <<>>
  /\ sleeps = <<>>
  /\ closes = <<>>
  /\ result = NoResult
  /\ sent = [called |-> FALSE, attempts |-> 0]
  /\ added = [query |-> [n \in Names |-> <<>>], header |-> [n \in Names |-> <<>>],
              replaced |-> {}]
  /\ heap = NewHeap

\* ---------------------------------------------------------------- setters
\* Mutant: each value is put in front of the current ones.
RECURSIVE add_Prepend(_, _)
add_Prepend(current, values) ==
  IF values = <<>> THEN current
  ELSE add_Prepend(<<Sprintf(Head(values))>> \o current, Tail(values))

\* add(current, values...): the values rendered by %v, appended in order
RECURSIVE add(_, _)
add(current, values) ==
  IF values = <<>> THEN current
  ELSE add(Append(current, Sprintf(Head(values))), Tail(values))

Configuring == pc = "config" /\ calls < MaxCfg

\* A setter that stores into the builder.
Set(cNew) ==
  /\ c' = cNew
  /\ calls' = calls + 1
  /\ UNCHANGED <<pc, stack, log, dos, rules, sleeps, closes, result, sent, heap>>

\* A setter that assigns to an entry of the map object its field refers to:
\* the field keeps its reference.
SetEntry(ref, name, v) ==
  /\ heap' = MapAssign(heap, ref, name, v)
  /\ calls' = calls + 1
  /\ UNCHANGED <<c, pc, stack, log, dos, rules, sleeps, closes, result, sent>>

\* A setter that assigns to an entry of a nil map.
SetterPanic ==
  /\ pc' = "panic"
  /\ calls' = calls + 1
  /\ UNCHANGED <<c, stack, log, dos, rules, sleeps, closes, result, sent, added,
                 heap>>

Timeout(timeout) ==
  Configuring /\ Set([c EXCEPT !.timeout = timeout]) /\ UNCHANGED added

Retry(attempts, delay, ruleF) ==
  /\ Configuring
  /\ Set([c EXCEPT !.retryAttempts = attempts, !.retryDelay = delay,
                   !.retryRuleF = ruleF])
  /\ UNCHANGED added

Param(param) == Configuring /\ Set([c EXCEPT !.param = param]) /\ UNCHANGED added

AddParam(name, value) ==
  /\ Configuring
  /\ IF c.param = "nil" THEN SetterPanic
     ELSE /\ SetEntry(c.param, name, Sprintf(value))
          /\ UNCHANGED added

Query(query) ==
  /\ Configuring
  /\ Set([c EXCEPT !.query = query])
  /\ added' = [added EXCEPT !.replaced = @ \cup {"query"}]

AddQuery(name, value) ==
  /\ Configuring
  /\ IF c.query = "nil" THEN SetterPanic
     ELSE /\ SetEntry(c.query, name, add(MapGet(At(heap, c.query), name), value))
          /\ added' = [added EXCEPT !.query[name] = @ \o value]

Header(header) ==
  /\ Configuring
  /\ Set([c EXCEPT !.header = header])
  /\ added' = [added EXCEPT !.replaced = @ \cup {"header"}]

AddHeader(name, value) ==
  /\ Configuring
  /\ IF c.header = "nil" THEN SetterPanic
     ELSE /\ SetEntry(c.header, name, add(MapGet(At(heap, c.header), name), value))
          /\ added' = [added EXCEPT !.header[name] = @ \o value]

Form(form) == Configuring /\ Set([c EXCEPT !.form = form]) /\ UNCHANGED added

AddForm(name, value) ==
  /\ Configuring
  /\ IF c.form = "nil" THEN SetterPanic
     ELSE /\ SetEntry(c.form, name, add(MapGet(At(heap, c.form), name), value))
          /\ UNCHANGED added

Body(body) == Configuring /\ Set([c EXCEPT !.body = body]) /\ UNCHANGED added

Records(records) ==
  Configuring /\ Set([c EXCEPT !.records = records]) /\ UNCHANGED added

\* ------------------------------------------------------------------- send
\* for _, value := range values { target.Add(name, value) }
RECURSIVE AddValues(_, _, _, _)
AddValues(t, name, values, isHeader) ==
  IF values = <<>> THEN t
  ELSE CHOOSE out \in
         { AddValues(next, name, Tail(values), isHeader) :
             next \in { IF isHeader THEN HeaderAdd(t, name, Head(values))
                        ELSE ValuesAdd(t, name, Head(values)) } } : TRUE

\* for name, values := range m { ... }, the keys visited in the given order
RECURSIVE AddEntries(_, _, _, _)
AddEntries(t, m, order, isHeader) ==
  IF order = <<>> THEN t
  ELSE CHOOSE out \in
         { AddEntries(next, m, Tail(order), isHeader) :
             next \in { AddValues(t, Head(order), m.kv[Head(order)], isHeader) } } :
         TRUE

NoRequest == [err |-> TRUE, Method |-> <<>>, URL |-> <<>>, Header |-> NilMap,
              Form |-> NilMap, Body |-> <<>>]

\* send up to the transport call: the request descriptor ("req"), an early
\* return of (nil, err) ("return"), or a panic in req.Form.Add ("panic").
\* urlParsed, rawQuery (query.Encode()), urlStr (urlParsed.String()) and req
\* are bound to their values: each is computed once, as in send.
Assemble(b, queryOrder, headerOrder, formOrder) ==
  CHOOSE a \in
    { IF urlParsed.err
      THEN [kind |-> "return", err |-> Wrap("parse", "url.Parse"), req |-> NoRequest]
      ELSE CHOOSE a2 \in
        { IF req.err
          THEN [kind |-> "return", err |-> Wrap("newrequest", "http.NewRequest"),
                req |-> NoRequest]
          ELSE
            LET header == AddEntries(Target(req.Header), b.header, headerOrder, TRUE)
                form == AddEntries(Target(req.Form), b.form, formOrder, FALSE)
            IN IF form.panic
               THEN [kind |-> "panic", err |-> NilError, req |-> NoRequest]
               ELSE [kind |-> "req", err |-> NilError,
                     req |-> [req EXCEPT !.Header = header.m]]
          : req \in
              { NewRequest(b.method, urlStr, b.body) :
                  urlStr \in
                    { UrlString([urlParsed EXCEPT !.RawQuery = rawQuery]) :
                        rawQuery \in
                          { Encode(query) :
                              query \in
                                { AddEntries(Target(MakeMap), b.query,
                                             queryOrder, FALSE).m } } } } } : TRUE
      : urlParsed \in {UrlParse(b.url)} } : TRUE

\* Mutant: every frame closes, whether or not its transport call gave a body.
RECURSIVE DeferredCloses_Every(_)
DeferredCloses_Every(stk) ==
  IF stk = <<>> THEN <<>>
  ELSE <<Len(stk)>> \o DeferredCloses_Every(SubSeq(stk, 1, Len(stk) - 1))

\* The frames whose deferred res.Body.Close() runs, innermost first.
RECURSIVE DeferredCloses(_)
DeferredCloses(stk) ==
  IF stk = <<>> THEN <<>>
  ELSE (IF stk[Len(stk)].hasBody THEN <<Len(stk)>> ELSE <<>>)
         \o DeferredCloses(SubSeq(stk, 1, Len(stk) - 1))

\* Every frame returns what the innermost one returns (return c.send(...)),
\* or a panic passes through them: their deferred calls run.
Unwind(stk, lg) ==
  /\ stack' = <<>>
  /\ closes' = closes \o DeferredCloses(stk)
  /\ log' = lg \o [i \in 1..Len(DeferredCloses(stk)) |-> "Close"]

ReturnFrom(stk, lg, response, err) ==
  /\ pc' = "done"
  /\ result' = [returned |-> TRUE, response |-> response, err |-> err]
  /\ Unwind(stk, lg)

\* Mutant: the panic is swallowed and Send returns (nil, nil).
PanicFrom_Recovered(stk, lg) == ReturnFrom(stk, lg, NilResponse, NilError)

PanicFrom(stk, lg) ==
  /\ pc' = "panic"
  /\ result' = result
  /\ Unwind(stk, lg)

\* A call of send(attempts) from below the frames stk, up to httpClient.Do.
Enter(attempts, stk, lg) ==
  \E b \in {Fields(c, heap)} :
  \E queryOrder \in Orders(DOMAIN b.query.kv),
     headerOrder \in Orders(DOMAIN b.header.kv),
     formOrder \in Orders(DOMAIN b.form.kv) :
    \E a \in {Assemble(b, queryOrder, headerOrder, formOrder)} :
      CASE a.kind = "return" -> ReturnFrom(stk, lg, NilResponse, a.err)
        [] a.kind = "panic" -> PanicFrom(stk, lg)
        [] a.kind = "req" ->
             /\ stack' = Append(stk, [attempts |-> attempts, req |-> a.req,
                                      timeout |-> b.timeout,
                                      hasBody |-> FALSE, response |-> NilResponse,
                                      responseErr |-> NilError])
             /\ pc' = "do"
             /\ log' = lg
             /\ UNCHANGED <<closes, result>>

\* Send: c.send(c.retryAttempts)
Send ==
  /\ pc = "config"
  /\ sent' = [called |-> TRUE, attempts |-> c.retryAttempts]
  /\ Enter(c.retryAttempts, <<>>, log)
  /\ UNCHANGED <<c, calls, dos, rules, sleeps, added, heap>>

\* Mutant: a failed read of the body is dropped: (nil, nil).
Classify_ReadErrorLost(out, at) ==
  IF out.err
  THEN [response |-> NilResponse,
        responseErr |-> [nil |-> FALSE, label |-> "", cause |-> "transport", at |-> at]]
  ELSE IF out.readErr
  THEN [response |-> NilResponse, responseErr |-> NilError]
  ELSE [response |-> [nil |-> FALSE, StatusCode |-> out.StatusCode,
                      Header |-> out.Header, Body |-> out.Body, at |-> at],
        responseErr |-> NilError]

\* Mutant: a body whose read failed is still made a Response.
Classify_PartialBody(out, at) ==
  IF out.err
  THEN [response |-> NilResponse,
        responseErr |-> [nil |-> FALSE, label |-> "", cause |-> "transport", at |-> at]]
  ELSE [response |-> [nil |-> FALSE, StatusCode |-> out.StatusCode,
                      Header |-> out.Header, Body |-> out.Body, at |-> at],
        responseErr |-> IF out.readErr
                        THEN [nil |-> FALSE, label |-> "", cause |-> "read", at |-> at]
                        ELSE NilError]

\* response and responseErr after httpClient.Do and ioutil.ReadAll
Classify(out, at) ==
  IF out.err
  THEN [response |-> NilResponse,
        responseErr |-> [nil |-> FALSE, label |-> "", cause |-> "transport", at |-> at]]
  ELSE IF out.readErr
  THEN [response |-> NilResponse,
        responseErr |-> [nil |-> FALSE, label |-> "", cause |-> "read", at |-> at]]
  ELSE [response |-> [nil |-> FALSE, StatusCode |-> out.StatusCode,
                      Header |-> out.Header, Body |-> out.Body, at |-> at],
        responseErr |-> NilError]

\* res, responseErr = httpClient.Do(req), with the httpClient made in this
\* frame; on success defer res.Body.Close(), and the stream is open and unread.
Do ==
  /\ pc = "do"
  /\ \E out \in TransportResults :
       LET top == stack[Len(stack)]
           at == Len(dos) + 1
       IN /\ dos' = Append(dos, [req |-> top.req, timeout |-> top.timeout, out |-> out])
          /\ IF out.err
             THEN /\ stack' = [stack EXCEPT ![Len(stack)] =
                                 [@ EXCEPT !.responseErr = Classify(out, at).responseErr]]
                  /\ pc' = "gate"
             ELSE /\ stack' = [stack EXCEPT ![Len(stack)] = [@ EXCEPT !.hasBody = TRUE]]
                  /\ pc' = "read"
  /\ log' = Append(log, "Do")
  /\ UNCHANGED <<c, calls, rules, sleeps, closes, result, sent, added, heap>>

\* body, responseErr = ioutil.ReadAll(res.Body), and the Response when the
\* read succeeded.
Read ==
  /\ pc = "read"
  /\ \E read \in ReadResults :
       \E out \in {[dos[Len(dos)].out EXCEPT !.Body = read.Body,
                                             !.readErr = read.readErr]} :
         /\ dos' = [dos EXCEPT ![Len(dos)].out = out]
         /\ stack' = [stack EXCEPT ![Len(stack)] =
                        [@ EXCEPT !.response = Classify(out, Len(dos)).response,
                                  !.responseErr = Classify(out, Len(dos)).responseErr]]
  /\ pc' = "gate"
  /\ UNCHANGED <<c, calls, log, rules, sleeps, closes, result, sent, added, heap>>

\* Mutant: the rule is asked after every attempt.
RetryGate_Always(attempts) == TRUE

\* Mutant: only a counter of exactly 0 ends the retries.
RetryGate_NonZero(attempts) == attempts # 0

\* Mutants of the gate: the rule is asked with no attempt left; the last
\* retry is never made.
RetryGate_NonNegative(attempts) == attempts >= 0
RetryGate_OffByOne(attempts) == attempts > 1

\* if attempts > 0
RetryGate(attempts) == attempts > 0

\* Mutant: the counter is read again from the builder at each retry.
NextAttempts_Reread(attempts) == c.retryAttempts - 1

\* Mutant: a retry uses up no attempt.
NextAttempts_Same(attempts) == attempts

\* Mutant: a retry costs two attempts.
NextAttempts_Skip(attempts) == attempts - 2

\* c.send(attempts - 1)
NextAttempts(attempts) == attempts - 1

\* Mutant: the outcome of the first attempt is returned.
Returned_Outermost(stk) == stk[1]

\* return response, responseErr: those of the returning frame, the innermost
Returned(stk) == stk[Len(stk)]

\* Mutant: the answer of the rule is ignored.
Retrying_Always(answer) == TRUE

\* if retry := c.retryRuleF(c, response, responseErr); retry
Retrying(answer) == answer

\* The retry gate: the rule is asked only with attempts left; a nil rule
\* panics; without a retry the frame returns (response, responseErr).
Gate ==
  /\ pc = "gate"
  /\ LET top == stack[Len(stack)] IN
       IF RetryGate(top.attempts)
       THEN IF c.retryRuleF = "nil"
            THEN PanicFrom(stack, log) /\ UNCHANGED rules
            ELSE \E retry \in BOOLEAN :
                   /\ rules' = Append(rules, [request |-> c, response |-> top.response,
                                              err |-> top.responseErr, retry |-> retry,
                                              attempts |-> top.attempts])
                   /\ IF Retrying(retry)
                      THEN /\ pc' = "sleep"
                           /\ log' = Append(log, "rule")
                           /\ UNCHANGED <<stack, closes, result>>
                      ELSE ReturnFrom(stack, Append(log, "rule"),
                                      Returned(stack).response,
                                      Returned(stack).responseErr)
       ELSE /\ ReturnFrom(stack, log, Returned(stack).response,
                          Returned(stack).responseErr)
            /\ UNCHANGED rules
  /\ UNCHANGED <<c, calls, dos, sleeps, sent, added, heap>>

\* time.Sleep(c.retryDelay)
Sleep ==
  /\ pc = "sleep"
  /\ sleeps' = Append(sleeps, c.retryDelay)
  /\ log' = Append(log, "Sleep")
  /\ pc' = "resend"
  /\ UNCHANGED <<c, calls, stack, dos, rules, closes, result, sent, added, heap>>

\* return c.send(attempts - 1), up to its httpClient.Do
Resend ==
  /\ pc = "resend"
  /\ Enter(NextAttempts(stack[Len(stack)].attempts), stack, log)
  /\ UNCHANGED <<c, calls, dos, rules, sleeps, sent, added, heap>>

\* The retryAttempts a caller configures.
AttemptsRange == (0 - 1)..MaxAttempts

Next ==
  \/ \E t \in Timeouts : Timeout(t)
  \/ \E n \in AttemptsRange, d \in Delays, f \in RuleFs : Retry(n, d, f)
  \/ \E m \in ParamMaps : Param(m)
  \/ \E name \in InertNames, v \in {ValInt} : AddParam(name, v)
  \/ \E m \in Maps : Query(m)
  \/ \E name \in Names, vs \in ArgLists : AddQuery(name, vs)
  \/ \E m \in Maps : Header(m)
  \/ \E name \in Names, vs \in ArgLists : AddHeader(name, vs)
  \/ \E m \in Maps : Form(m)
  \/ \E name \in InertNames, vs \in ArgLists : AddForm(name, vs)
  \/ \E b \in Bodies : Body(b)
  \/ \E r \in RecordsValues : Records(r)
  \/ Send
  \/ Do
  \/ Read
  \/ Gate
  \/ Sleep
  \/ Resend

Spec == Init /\ [][Next]_vars

\* Send runs on the caller's thread: the transport call and the read of the
\* body end (by the client's timeout at the latest), the gate is evaluated,
\* the sleep ends and the next call of send is made.
FairSpec ==
  Spec /\ WF_vars(Do) /\ WF_vars(Read) /\ WF_vars(Gate) /\ WF_vars(Sleep)
       /\ WF_vars(Resend)

\* retryRuleF is a caller's function and is handed the builder itself: it may
\* write it before it answers.  What it may leave behind, as the builder and
\* the heap: a Retry with more attempts and another delay, a nil rule,
\* AddQuery("x", "a"), or another url and body with Header(m).
UrlOther == <<"h", "t", "t", "p", ":", "/", "/", "g", ":", "/", "r">>
DelayOther == 20

Mutations(b, h) ==
  { [c |-> [b EXCEPT !.retryAttempts = MaxAttempts + 1, !.retryDelay = DelayOther],
     heap |-> h],
    [c |-> [b EXCEPT !.retryRuleF = "nil"], heap |-> h],
    [c |-> [b EXCEPT !.url = UrlOther, !.body = <<"e">>, !.header = "m"], heap |-> h],
    [c |-> b,
     heap |-> IF b.query = "nil" THEN h
              ELSE MapAssign(h, b.query, <<"x">>,
                             add(MapGet(At(h, b.query), <<"x">>), <<ValA>>))] }

\* The retry gate with a rule that writes the builder: the rule is handed c
\* and the frame's outcome, leaves c or its maps changed and answers.
RuleMutates ==
  /\ pc = "gate"
  /\ LET top == stack[Len(stack)] IN
       /\ RetryGate(top.attempts)
       /\ c.retryRuleF = "rule"
       /\ \E new \in Mutations(c, heap) \ {[c |-> c, heap |-> heap]},
             retry \in BOOLEAN :
            /\ c' = new.c
            /\ heap' = new.heap
            /\ rules' = Append(rules, [request |-> c, response |-> top.response,
                                       err |-> top.responseErr, retry |-> retry,
                                       attempts |-> top.attempts])
            /\ IF Retrying(retry)
               THEN /\ pc' = "sleep"
                    /\ log' = Append(log, "rule")
                    /\ UNCHANGED <<stack, closes, result>>
               ELSE ReturnFrom(stack, Append(log, "rule"),
                               Returned(stack).response,
                               Returned(stack).responseErr)
  /\ UNCHANGED <<calls, dos, sleeps, sent, added>>

NextMut == Next \/ RuleMutates

\* The program with rules that write the builder.
SpecMut == Init /\ [][NextMut]_vars

\* ----------------------------------------------------------------- claims
\* Send returned the outcome of an attempt: not a panic, and not the early
\* return of url.Parse or http.NewRequest, which carry a label.
ReturnedAttempt == pc = "done" /\ result.returned /\ result.err.label = ""

\* The transport call i succeeded and its body was read to the end.
Succeeded(i) ==
  ~dos[i].out.err /\ ~dos[i].out.readErr /\ (i < Len(dos) \/ pc # "read")

\* The (response, error) pair attempt i is to give, from what the transport
\* gave it.
ExpectedResponse(i) ==
  IF Succeeded(i)
  THEN [nil |-> FALSE, StatusCode |-> dos[i].out.StatusCode,
        Header |-> dos[i].out.Header, Body |-> dos[i].out.Body, at |-> i]
  ELSE NilResponse

ExpectedError(i) ==
  IF Succeeded(i) THEN NilError
  ELSE [nil |-> FALSE, label |-> "",
        cause |-> IF dos[i].out.err THEN "transport" ELSE "read", at |-> i]

IsCall(e) == e # "Close"
\* Transport calls, rule calls and sleeps, in the order they happened.
Events == SelectSeq(log, IsCall)

IsPrefix(a, b) == Len(a) <= Len(b) /\ SubSeq(b, 1, Len(a)) = a

\* k retries: (transport call, rule call, sleep) k times, then a transport call.
RECURSIVE RetryPattern(_)
RetryPattern(k) ==
  IF k <= 0 THEN <<"Do">> ELSE <<"Do", "rule", "Sleep">> \o RetryPattern(k - 1)

\* C1: when Send is called with retryAttempts = 0, the rule is never invoked,
\* nothing is slept, and a Send that returns an attempt's outcome (whatever
\* the transport gave) has made exactly one transport call.
C1_ZeroAttemptsOneCall ==
  (sent.called /\ sent.attempts = 0) =>
    /\ rules = <<>>
    /\ sleeps = <<>>
    /\ Len(dos) <= 1
    /\ (ReturnedAttempt => Len(dos) = 1)

\* A rule is configured with 0 attempts and the one attempt failed in the read.
C1_Witness ==
  /\ ReturnedAttempt /\ sent.attempts = 0 /\ c.retryRuleF = "rule"
  /\ Len(dos) = 1 /\ result.err.cause = "read"

\* C2: with retryAttempts = k > 0 and a rule that answered true every time,
\* whatever the transport gave: the calls follow the pattern (transport, rule,
\* sleep)* transport, every sleep lasts retryDelay, and a Send that returns has
\* made exactly k + 1 transport calls and slept exactly k times.
C2_AlwaysRetryCounts ==
  (sent.called /\ sent.attempts > 0 /\ \A i \in 1..Len(rules) : rules[i].retry) =>
    /\ IsPrefix(Events, RetryPattern(sent.attempts))
    /\ \A i \in 1..Len(sleeps) : sleeps[i] = c.retryDelay
    /\ (ReturnedAttempt =>
          /\ Len(dos) = sent.attempts + 1
          /\ Len(sleeps) = sent.attempts
          /\ Events = RetryPattern(sent.attempts))

C2_Witness ==
  /\ ReturnedAttempt /\ sent.attempts = MaxAttempts
  /\ \A i \in 1..Len(rules) : rules[i].retry
  /\ Len(dos) = MaxAttempts + 1 /\ Len(sleeps) = MaxAttempts
  /\ c.retryDelay \in Delays

\* C3: with retryAttempts > 0, if the rule answers false after the first
\* attempt, Send has returned that attempt's (response, error) pair after
\* exactly one transport call and no sleep.
C3_DeclinedFirst ==
  (sent.called /\ sent.attempts > 0 /\ Len(rules) >= 1 /\ ~rules[1].retry) =>
    /\ pc = "done" /\ result.returned
    /\ Len(dos) = 1 /\ Len(rules) = 1 /\ sleeps = <<>>
    /\ result.response = ExpectedResponse(1) /\ result.err = ExpectedError(1)
    /\ result.response = rules[1].response /\ result.err = rules[1].err

C3_Witness ==
  /\ pc = "done" /\ sent.attempts = MaxAttempts /\ Len(rules) = 1 /\ ~rules[1].retry
  /\ ~result.err.nil

\* The urls of the model that url.Parse rejects.
Malformed == c.url \in {UrlNoScheme, UrlCtl, UrlBadPort, UrlColonSegment}

\* C4: when the url cannot be parsed, Send returns a nil response and a
\* non-nil error, and calls neither the transport nor the rule, and does not
\* sleep, whatever retryAttempts is.
C4_MalformedUrlFatal ==
  (sent.called /\ Malformed) =>
    /\ pc = "done" /\ result.returned
    /\ result.response.nil /\ ~result.err.nil
    /\ dos = <<>> /\ rules = <<>> /\ sleeps = <<>>

C4_Witness ==
  /\ sent.called /\ Malformed /\ sent.attempts > 0 /\ c.retryRuleF = "rule"
  /\ pc = "done"

\* Exactly one of response and error is nil.
OneOf(response, err) == response.nil # err.nil

\* C5: in every attempt, in every pair handed to the rule and in the pair Send
\* returns, exactly one of response and error is non-nil, and the response is
\* non-nil exactly when the transport call and the read of the body succeeded.
C5_ResponseXorError ==
  /\ \A i \in 1..Len(stack) :
       (i < Len(stack) \/ pc \in {"gate", "sleep", "resend"}) =>
         /\ OneOf(stack[i].response, stack[i].responseErr)
         /\ stack[i].response.nil = ~Succeeded(i)
  /\ \A i \in 1..Len(rules) :
       /\ OneOf(rules[i].response, rules[i].err)
       /\ rules[i].response.nil = ~Succeeded(i)
  /\ result.returned => OneOf(result.response, result.err)
  /\ ReturnedAttempt => result.response.nil = ~Succeeded(Len(dos))

\* A failed attempt was handed to the rule, and a later one succeeded.
C5_Witness ==
  /\ ReturnedAttempt /\ Len(rules) >= 1
  /\ rules[1].response.nil /\ ~rules[1].err.nil
  /\ ~result.response.nil /\ result.err.nil

\* The rule answered true exactly when the error it was given was non-nil.
RetriedOnError == \A i \in 1..Len(rules) : rules[i].retry = ~rules[i].err.nil

\* C6: with retryAttempts = k > 0 and a rule that answers true exactly on a
\* non-nil error: no transport call follows a success; if the first success is
\* attempt j, Send returns it with a nil error after j transport calls and
\* j - 1 sleeps of retryDelay; if all k + 1 attempts fail, Send returns a nil
\* response and the error of attempt k + 1.
C6_RetryOnError ==
  (sent.called /\ sent.attempts > 0 /\ RetriedOnError) =>
    /\ \A j \in 1..(Len(dos) - 1) : ~Succeeded(j)
    /\ ReturnedAttempt =>
         IF Succeeded(Len(dos))
         THEN /\ Len(dos) <= sent.attempts + 1
              /\ Len(sleeps) = Len(dos) - 1
              /\ \A i \in 1..Len(sleeps) : sleeps[i] = c.retryDelay
              /\ result.response = ExpectedResponse(Len(dos))
              /\ result.err.nil
         ELSE /\ Len(dos) = sent.attempts + 1
              /\ result.response.nil
              /\ result.err = ExpectedError(sent.attempts + 1)

\* Two failures, then a success, with attempts = 2.
C6_Witness ==
  /\ ReturnedAttempt /\ sent.attempts = 2 /\ RetriedOnError
  /\ Len(dos) = 3 /\ ~Succeeded(1) /\ ~Succeeded(2) /\ Succeeded(3)
  /\ sleeps = <<10, 10>>
  /\ result.response.StatusCode = 200 /\ result.err.nil

\* C7: the pair Send returns is the outcome of the last attempt performed, the
\* one at which the rule answered false or the counter was no longer positive.
C7_LastAttemptReturned ==
  ReturnedAttempt =>
    /\ Len(dos) >= 1
    /\ result.response = ExpectedResponse(Len(dos))
    /\ result.err = ExpectedError(Len(dos))
    /\ IF Len(rules) = Len(dos) THEN ~rules[Len(rules)].retry
       ELSE Len(rules) = Len(dos) - 1 /\ sent.attempts - (Len(dos) - 1) <= 0

\* The first attempt succeeded, the rule asked for a retry, the last failed.
C7_Witness ==
  /\ ReturnedAttempt /\ Len(dos) >= 2
  /\ Succeeded(1) /\ ~Succeeded(Len(dos))
  /\ result.response.nil /\ result.err.at = Len(dos)

\* Index of the first ch in s, 0 when absent.
FirstIndex(s, ch) ==
  IF \E i \in 1..Len(s) : s[i] = ch
  THEN CHOOSE i \in 1..Len(s) : s[i] = ch /\ \A j \in 1..(i - 1) : s[j] # ch
  ELSE 0

RECURSIVE Split(_, _)
Split(s, sep) ==
  IF FirstIndex(s, sep) = 0 THEN <<s>>
  ELSE <<SubSeq(s, 1, FirstIndex(s, sep) - 1)>>
         \o Split(SubSeq(s, FirstIndex(s, sep) + 1, Len(s)), sep)

HexValue(ch) == (CHOOSE i \in 1..16 : UpperHex[i] = ch) - 1

\* The reading of an escaped query component: + is a space, %XY a byte.
RECURSIVE Unescape(_)
Unescape(s) ==
  IF s = <<>> THEN <<>>
  ELSE IF Head(s) = "+" THEN <<" ">> \o Unescape(Tail(s))
  ELSE IF Head(s) = "%"
    THEN <<Chr(16 * HexValue(s[2]) + HexValue(s[3]))>> \o Unescape(SubSeq(s, 4, Len(s)))
  ELSE <<Head(s)>> \o Unescape(Tail(s))

\* The query string of a request url, and its key=value pairs in order.
RequestQuery(url) ==
  IF FirstIndex(url, "?") = 0 THEN <<>>
  ELSE SubSeq(url, FirstIndex(url, "?") + 1, Len(url))

QueryPairs(raw) ==
  IF raw = <<>> THEN <<>>
  ELSE LET segs == Split(raw, "&") IN
    [i \in 1..Len(segs) |->
       [key |-> Unescape(SubSeq(segs[i], 1, FirstIndex(segs[i], "=") - 1)),
        value |-> Unescape(SubSeq(segs[i], FirstIndex(segs[i], "=") + 1, Len(segs[i])))]]

RECURSIVE ValuesUnder(_, _)
ValuesUnder(pairs, key) ==
  IF pairs = <<>> THEN <<>>
  ELSE (IF Head(pairs).key = key THEN <<Head(pairs).value>> ELSE <<>>)
         \o ValuesUnder(Tail(pairs), key)

\* The text of the values a caller added.
Strings(values) == [i \in 1..Len(values) |-> Sprintf(values[i])]

\* a is b with some elements left out.
RECURSIVE IsSubseq(_, _)
IsSubseq(a, b) ==
  IF a = <<>> THEN TRUE
  ELSE IF b = <<>> THEN FALSE
  ELSE IF Head(a) = Head(b) THEN IsSubseq(Tail(a), Tail(b))
  ELSE IsSubseq(a, Tail(b))

\* C8: on a builder from NewRest whose query was only written by AddQuery, the
\* query string of every request handed to the transport holds, under each
\* key, exactly the values added under that key, in the order they were added.
C8_QueryOrderKept ==
  ("query" \notin added.replaced) =>
    \A i \in 1..Len(dos) : \A n \in Names :
      ValuesUnder(QueryPairs(RequestQuery(dos[i].req.URL)), n)
        = Strings(added.query[n])

\* Two calls of AddQuery on x, the second with the value that sorts first.
C8_Witness ==
  /\ Len(dos) >= 1 /\ "query" \notin added.replaced
  /\ added.query[<<"x">>] = <<ValB, ValA>>
  /\ RequestQuery(dos[1].req.URL)
       = <<"x", "=", "b", "%", "2", "6", "+", "&", "x", "=", "a">>

\* The names that are written under the header key K on the request.
NamesOf(K) == { n \in Names : CanonicalMIMEHeaderKey(n) = K }

RECURSIVE SumLen(_, _)
SumLen(f, S) ==
  IF S = {} THEN 0
  ELSE LET n == CHOOSE x \in S : TRUE IN Len(f[n]) + SumLen(f, S \ {n})

\* C9: on a builder from NewRest whose headers were only written by AddHeader,
\* on the request of every attempt the values added under a name are all
\* there under (the canonical form of) that name, in the order they were
\* added, and none replaced another: the key holds as many values as were
\* added under the names it stands for.
C9_HeadersAccumulate ==
  ("header" \notin added.replaced) =>
    \A i \in 1..Len(dos) :
      LET h == dos[i].req.Header IN
        /\ \A n \in Names :
             IsSubseq(Strings(added.header[n]), MapGet(h, CanonicalMIMEHeaderKey(n)))
        /\ \A K \in DOMAIN h.kv :
             Len(h.kv[K]) = SumLen(added.header, NamesOf(K))

\* Values were added under x and under X, which share the key X.
C9_Witness ==
  /\ Len(dos) >= 1 /\ "header" \notin added.replaced
  /\ added.header[<<"x">>] # <<>> /\ added.header[<<"X">>] # <<>>
  /\ Len(dos[1].req.Header.kv[<<"X">>]) >= 2

\* The builder has a form value.
HasFormValue ==
  \E n \in DOMAIN At(heap, c.form).kv : At(heap, c.form).kv[n] # <<>>

\* C10: form values make no difference to Send: it does not abort because of
\* them.
C10_FormInert == (sent.called /\ HasFormValue) => pc # "panic"

\* Retry was configured with attempts left and no rule.
RetryWithoutRule == sent.called /\ sent.attempts > 0 /\ c.retryRuleF = "nil"

\* C11 as claimed: with retryAttempts > 0 and a nil rule, Send never returns a
\* (response, error) pair.
C11_NilRuleNeverReturns == RetryWithoutRule => ~result.returned

\* C11, amended: with retryAttempts > 0 and a nil rule, Send never returns the
\* outcome of an attempt: the first attempt that reaches the retry gate aborts
\* there, after exactly one transport call and without a sleep; Send returns a
\* pair only when it ended before the transport call (url.Parse or
\* http.NewRequest failed).
C11_NilRuleAbortsAtGate ==
  RetryWithoutRule =>
    /\ ~ReturnedAttempt
    /\ Len(dos) <= 1 /\ rules = <<>> /\ sleeps = <<>>
    /\ (result.returned => dos = <<>> /\ result.response.nil /\ ~result.err.nil)
    /\ (Len(dos) = 1 => pc \in {"read", "gate", "panic"})

\* The abort at the gate, whatever the form: one transport call was made.
C11_Witness ==
  /\ RetryWithoutRule /\ pc = "panic" /\ Len(dos) = 1 /\ Succeeded(1)

\* C12 as claimed: every error Send returns carries the label of its stage.
C12_EveryErrorLabelled ==
  (result.returned /\ ~result.err.nil) => result.err.label # ""

\* C12, amended: the errors of url.Parse and of http.NewRequest reach the
\* caller wrapped with the labels "url.Parse" and "http.NewRequest"; a
\* transport failure and a failure to read the body reach it as they are,
\* without a label.
C12_LabelsOfStages ==
  (result.returned /\ ~result.err.nil) =>
    /\ Malformed => (result.err.label = "url.Parse" /\ result.err.cause = "parse")
    /\ (~Malformed /\ dos = <<>>) =>
         (result.err.label = "http.NewRequest" /\ result.err.cause = "newrequest")
    /\ dos # <<>> =>
         /\ result.err.label = ""
         /\ result.err = ExpectedError(Len(dos))
         /\ result.err.cause \in {"transport", "read"}

\* After a retry, the read of the body failed: the error has no label.
C12_Witness ==
  /\ result.returned /\ Len(dos) >= 2
  /\ result.err.cause = "read" /\ result.err.label = ""

\* Send has returned or aborted.
Finished == pc \in {"done", "panic"}

\* The request can be assembled: the url parses, http.NewRequest accepts the
\* method, and no form value is applied to the nil req.Form.
Assemblable == ~Malformed /\ ValidMethod(c.method) /\ ~HasFormValue

\* C13 as claimed, its lower bound: whenever the url parses, a Send that has
\* returned made at least one transport call.
C13_CallsWhenUrlParses ==
  (sent.called /\ sent.attempts >= 0 /\ pc = "done" /\ ~Malformed) => Len(dos) >= 1

\* The bounds of a Send with retryAttempts = k >= 0.
C13_Bounds ==
  (sent.called /\ sent.attempts >= 0) =>
    /\ Len(stack) <= sent.attempts + 1
    /\ Len(dos) <= sent.attempts + 1
    /\ Len(sleeps) <= sent.attempts
    /\ Finished => (IF Assemblable THEN Len(dos) >= 1 ELSE Len(dos) = 0)

\* C13, amended: for every retryAttempts = k >= 0, every sequence of answers of
\* the rule and of transport outcomes, Send ends (it returns or aborts), with
\* at most k nested calls of send, at most k + 1 transport calls and at most k
\* sleeps; it makes at least one transport call exactly when the request can be
\* assembled (the url parses, http.NewRequest accepts the method and url, and
\* no form value aborts the assembly), and none otherwise.
C13_EndsWithinBounds == [](C13_Bounds) /\ (sent.called ~> Finished)

\* Every retry was used: k + 1 transport calls and k sleeps.
C13_Witness ==
  /\ pc = "done" /\ sent.attempts = MaxAttempts
  /\ Len(dos) = MaxAttempts + 1 /\ Len(sleeps) = MaxAttempts
  /\ Len(closes) = MaxAttempts + 1

\* The remaining-attempts counter of attempt i.
CounterAt(i) == sent.attempts - (i - 1)

\* The gate of attempt i is behind: the frame sleeps, retried or returned.
GatePassed(i) ==
  i < Len(dos) \/ (i = Len(dos) /\ pc \in {"sleep", "resend", "done"})

\* C14 as claimed: a failure after the url has parsed, met with attempts
\* left, is handed to the rule before Send returns.
C14_OnlyParseBypasses ==
  (pc = "done" /\ ~result.err.nil /\ ~Malformed /\ sent.attempts > 0) =>
    rules # <<>>

\* C14, amended: the failures before the transport call (url.Parse and
\* http.NewRequest) return at once, whatever the counter, and the rule is not
\* asked; a failure of the transport call or of the read of the body, met
\* with a counter > 0, is handed to the rule with a nil response before the
\* frame returns or retries.
C14_FailuresReachRule ==
  /\ (result.returned /\ result.err.label # "") =>
        (rules = <<>> /\ sleeps = <<>> /\ dos = <<>>)
  /\ \A i \in 1..Len(dos) :
        (~Succeeded(i) /\ CounterAt(i) > 0 /\ GatePassed(i)) =>
          /\ Len(rules) >= i
          /\ rules[i].err = ExpectedError(i)
          /\ ~rules[i].err.nil
          /\ rules[i].response.nil

\* The second attempt failed in the read with one attempt left, the rule
\* was asked about it and declined.
C14_Witness ==
  /\ pc = "done" /\ sent.attempts = 2 /\ Len(dos) = 2 /\ Len(rules) = 2
  /\ dos[2].out.readErr /\ rules[2].err.cause = "read" /\ ~rules[2].retry

\* C15: the rule is invoked only with a counter > 0, at most once per attempt
\* and right after the attempt's transport call, at most retryAttempts times
\* per Send and never after the attempt made with counter 0; invocation i
\* receives the builder itself and the (response, error) of attempt i, the
\* attempt that just completed.
C15_RuleContract ==
  /\ Len(rules) <= Len(dos)
  /\ sent.called => Len(rules) <= (IF sent.attempts > 0 THEN sent.attempts ELSE 0)
  /\ \A j \in 1..Len(Events) :
        Events[j] = "rule" => (j > 1 /\ Events[j - 1] = "Do")
  /\ \A i \in 1..Len(rules) :
        /\ rules[i].attempts > 0
        /\ rules[i].attempts = CounterAt(i)
        /\ rules[i].request = c
        /\ rules[i].response = ExpectedResponse(i)
        /\ rules[i].err = ExpectedError(i)
  /\ (Finished /\ dos # <<>> /\ CounterAt(Len(dos)) <= 0) => Len(rules) < Len(dos)

\* Two invocations: the first was given the failure of attempt 1, the second
\* the response of attempt 2, and the attempt made with counter 0 none.
C15_Witness ==
  /\ pc = "done" /\ sent.attempts = 2 /\ Len(dos) = 3 /\ Len(rules) = 2
  /\ ~rules[1].err.nil /\ rules[2].err.nil /\ rules[2].response.at = 2

\* Every field of the builder outside F holds what it held: the same scalar,
\* the same map with the same entries.
OnlyChanged(F) ==
  \A f \in (DOMAIN c) \ F : Fields(c', heap')[f] = Fields(c, heap)[f]

\* A setter call that returns: the builder goes on being configured.
SetterReturns == calls' = calls + 1 /\ pc' = "config"

\* What each configuration operation may change.
SetterFrames ==
  /\ (\E t \in Timeouts : Timeout(t)) => OnlyChanged({"timeout"})
  /\ \A n \in AttemptsRange, d \in Delays, f \in RuleFs :
        Retry(n, d, f) =>
          /\ OnlyChanged({"retryAttempts", "retryDelay", "retryRuleF"})
          /\ c'.retryAttempts = n /\ c'.retryDelay = d /\ c'.retryRuleF = f
  /\ (\E m \in ParamMaps : Param(m)) => OnlyChanged({"param"})
  /\ (\E name \in InertNames, v \in {ValInt} : AddParam(name, v)) => OnlyChanged({"param"})
  /\ (\E m \in Maps : Query(m)) => OnlyChanged({"query"})
  /\ (\E name \in Names, vs \in ArgLists : AddQuery(name, vs)) => OnlyChanged({"query"})
  /\ (\E m \in Maps : Header(m)) => OnlyChanged({"header"})
  /\ (\E name \in Names, vs \in ArgLists : AddHeader(name, vs)) => OnlyChanged({"header"})
  /\ (\E m \in Maps : Form(m)) => OnlyChanged({"form"})
  /\ (\E name \in InertNames, vs \in ArgLists : AddForm(name, vs)) => OnlyChanged({"form"})
  /\ (\E b \in Bodies : Body(b)) => OnlyChanged({"body"})
  /\ (\E r \in RecordsValues : Records(r)) => OnlyChanged({"records"})

\* C16 as claimed: a configuration operation changes only its own field(s)
\* of the one builder it is called on (a call that aborts changes none), and
\* leaves the state of any Send alone; Retry stores retryAttempts, retryDelay
\* and the rule in the same step; no operation ever changes method or url.
\* Query, Header and Form store the caller's map itself, so after Query(m)
\* and Header(m) an AddQuery writes the one map both fields hold.
C16_SettersFrame ==
  [][/\ SetterFrames
     /\ (calls' # calls) =>
           /\ OnlyChanged({"timeout", "retryAttempts", "retryDelay", "retryRuleF",
                           "param", "query", "header", "form", "body", "records"})
           /\ UNCHANGED <<stack, log, dos, rules, sleeps, closes, result, sent>>
           /\ (~SetterReturns => c' = c)
     /\ (c'.method = c.method /\ c'.url = c.url)]_vars

\* C17 as claimed: whatever map Query, Header, Form or Param was given
\* before (a nil map included), a following AddQuery, AddHeader, AddForm or
\* AddParam succeeds: no configuration call aborts.
C17_AddAfterReplaceSucceeds == ~sent.called => pc # "panic"

\* How many times the stream of attempt i was closed.
ClosesOf(i) == Cardinality({ j \in 1..Len(closes) : closes[j] = i })

\* C18: the stream of an attempt whose transport call succeeded is read to
\* its end (or to its read error) in the attempt and closed exactly once, by
\* the time Send returns (or aborts) and not before; no stream is closed for
\* an attempt whose transport call failed.
C18_StreamsClosedOnce ==
  /\ ~Finished => closes = <<>>
  /\ \A i \in 1..Len(dos) :
        /\ ClosesOf(i) <= 1
        /\ dos[i].out.err => ClosesOf(i) = 0
        /\ (Finished /\ ~dos[i].out.err) => ClosesOf(i) = 1
        /\ (i <= Len(rules) /\ Succeeded(i)) => rules[i].response.Body = dos[i].out.Body
  /\ \A j \in 1..Len(closes) : closes[j] \in 1..Len(dos)
  /\ \A j \in 1..(Len(closes) - 1) : closes[j] > closes[j + 1]

\* Three attempts: the first failed in the transport, the second in the read
\* of its body, the third succeeded; the two streams are closed.
C18_Witness ==
  /\ pc = "done" /\ Len(dos) = 3
  /\ dos[1].out.err /\ dos[2].out.readErr /\ Succeeded(3)
  /\ closes = <<3, 2>>

\* C19: Retry stores a negative retryAttempts as it is, and Send then behaves
\* as with 0: the rule is never invoked (a nil rule does not abort), nothing
\* is slept, at most one transport call is made, and a Send whose request
\* is assembled returns the outcome of exactly one transport call.
C19_NegativeLikeZero ==
  (sent.called /\ sent.attempts < 0) =>
    /\ c.retryAttempts = sent.attempts
    /\ rules = <<>> /\ sleeps = <<>> /\ Len(dos) <= 1 /\ Len(stack) <= 1
    /\ (pc = "panic" => (dos = <<>> /\ HasFormValue))
    /\ (pc = "gate" => Len(dos) = 1)
    /\ (ReturnedAttempt =>
          /\ Len(dos) = 1
          /\ result.response = ExpectedResponse(1)
          /\ result.err = ExpectedError(1))

\* Retry(-1, d, nil), and the Send returned the response of its one call.
C19_Witness ==
  /\ ReturnedAttempt /\ sent.attempts = 0 - 1 /\ c.retryRuleF = "nil"
  /\ Len(dos) = 1 /\ Succeeded(1) /\ ~result.response.nil

\* The retryAttempts of the Send, never below 0.
Retries == IF sent.attempts > 0 THEN sent.attempts ELSE 0

\* The counter of the Send is the retryAttempts read at its call, less 1 per
\* retry, whatever the builder holds by now.
C20_CounterFixed ==
  sent.called =>
    /\ \A i \in 1..Len(stack) : stack[i].attempts = CounterAt(i)
    /\ \A i \in 1..Len(rules) : rules[i].attempts = CounterAt(i)
    /\ Len(dos) <= Retries + 1
    /\ Len(sleeps) <= Retries
    /\ Len(rules) <= Retries

\* The steps of a Send: the builder is written by the rule alone; the sleep
\* lasts the retryDelay the builder holds then, and the request of the
\* following attempt is assembled from the builder as the rule left it.
C20_StepsReadBuilder ==
  /\ (sent.called /\ (c' # c \/ heap' # heap)) =>
        (pc = "gate" /\ Len(rules') = Len(rules) + 1)
  /\ (~sent.called /\ sent'.called) =>
        (c' = c /\ heap' = heap /\ sent'.attempts = c.retryAttempts)
  /\ pc = "sleep" => sleeps' = Append(sleeps, c.retryDelay)
  /\ (pc = "resend" /\ pc' = "do") =>
        \E b \in {Fields(c, heap)} :
        \E queryOrder \in Orders(DOMAIN b.query.kv),
           headerOrder \in Orders(DOMAIN b.header.kv),
           formOrder \in Orders(DOMAIN b.form.kv) :
          \E a \in {Assemble(b, queryOrder, headerOrder, formOrder)} :
            /\ a.kind = "req" /\ stack'[Len(stack')].req = a.req
            /\ stack'[Len(stack')].timeout = c.timeout
  /\ pc = "do" =>
        /\ dos'[Len(dos')].req = stack[Len(stack)].req
        /\ dos'[Len(dos')].timeout = stack[Len(stack)].timeout

\* C20: the counter is a copy of retryAttempts taken when Send is called and
\* drops by exactly 1 per retry, so a rule that writes the builder during the
\* Send cannot raise the transport calls above the original retryAttempts + 1;
\* what it writes to url, query, header, body, retryDelay or the rule is read
\* by the following attempt; no step of Send but the rule writes the builder.
C20_CounterCopied == [](C20_CounterFixed) /\ [][C20_StepsReadBuilder]_vars

\* The rule raised retryAttempts during a Send with 2 attempts and changed
\* the url: the Send returned after 3 transport calls and 2 sleeps, the
\* later requests went to the new url and the later sleep took the new delay.
C20_Witness ==
  /\ pc = "done" /\ sent.attempts = 2 /\ c.retryAttempts = MaxAttempts + 1
  /\ Len(dos) = 3 /\ dos[1].req.URL = UrlGood
  /\ dos[3].req.URL = <<"h", "t", "t", "p", ":", "/", "/", "g", "/", "r">>
  /\ dos[3].req.Body = <<"e">>
  /\ sleeps = <<10, DelayOther>> \/ sleeps = <<DelayOther, DelayOther>>
====
